---- MODULE Spec2Model ----
(***************************************************************************)
(* Expense manager backend: the user, team, expense and budget handlers    *)
(* over the relational store (tables users, teams, team_members,           *)
(* expenses, budgets, reports).                                            *)
(*                                                                         *)
(* Money is numeric(10,2) in the store; the model counts it in cents, so   *)
(* parseFloat / toString / the rounding of the column are exact on the     *)
(* values used.  expense_date is abstracted to the month it falls in,      *)
(* relative to the current month of the clock, which does not advance.     *)
(*                                                                         *)
(* Spec       handler calls one at a time, expenses dated this month       *)
(* SpecDated  the same for one owner, expenses dated this or last month    *)
(* SpecLedger the handlers that write or recompute current_spent           *)
(* SpecBudgetInit  budgets created over expenses of any date               *)
(* SpecConc   two requests in flight, interleaved at each await, where     *)
(*            any awaited statement may reject                             *)
(* SpecRegister     overlapping registrations, statement by statement      *)
(* SpecTeams        createTeam and addTeamMember, one call at a time       *)
(* SpecTeamExpense  expenses attributed to teams, edited and decided       *)
(* SpecTeamQuery    getTeamExpenses over the expenses of two teams         *)
(* SpecUserQuery    getUserExpenses over every small table of expenses     *)
(* SpecRoundTrip    one expense at a time created, decided and deleted     *)
(* SpecRouting      getPendingApprovals and approveExpense over two teams  *)
(* SpecReports      generateReport over every small table of expenses      *)
(***************************************************************************)
EXTENDS Integers, FiniteSets, Sequences, TLC

VARIABLES
    users,          \* usersTable: id -> [email, username, role, is_active]
    teams,          \* teamsTable: id -> [manager_id]
    teamMembers,    \* teamMembersTable: id -> [team_id, user_id]
    page,           \* the expense ids returned by the last query, in order
    paging,         \* total, page, limit and total_pages returned by the last paged query
    reports,        \* reportsTable: id -> [user_id, filters]
    expenses,       \* expensesTable: id -> row (domain = the live rows)
    nextExpenseId,  \* the serial of expensesTable.id
    budgets,        \* budgetsTable: id -> row (rows are never deleted)
    result,         \* outcome of the last handler call that finished
    spentWrites,    \* the current_spent writes of that call: <<budget id, old, new>>
    calls,          \* number of handler calls finished so far
    pc,             \* per request: the await its handler is suspended at
    loc             \* per request: the handler's arguments and local variables

vars == <<users, teams, teamMembers, page, paging, reports, expenses, nextExpenseId, budgets, result,
          spentWrites, calls, pc, loc>>

----------------------------------------------------------------------------
(* Bounds of the model *)

MaxExpenses == 2        \* rows ever inserted into expensesTable
MaxBudgets == 2         \* rows ever inserted into budgetsTable
MaxCalls == 4           \* handler calls in one sequential run
MaxTeams == 2           \* rows ever inserted into teamsTable

NULL == "NULL"

\* An optional value (a nullable column, an optional input field, the first row
\* of a query result): None, or Some(v)
None == <<>>
Some(v) == <<v>>
Get(o) == o[1]
Optional(S) == {None} \cup {Some(v) : v \in S}

Roles == {"ADMIN", "MANAGER", "USER"}
Statuses == {"PENDING", "APPROVED", "REJECTED"}
Decisions == {"APPROVED", "REJECTED"}
Categories == {"FOOD_DINING", "TRAVEL"}
Amounts == {2500, 3550}                     \* 25.00 and 35.50, in cents
ExpenseDates == {"PREV_MONTH", "THIS_MONTH"}

\* "THIS_MONTH" is an instant of the current month before its last millisecond,
\* "MONTH_END" is that last millisecond (the last day, 23:59:59.999)
AllDates == ExpenseDates \cup {"MONTH_END"}

\* get_user_budgets.ts:10-11, 32-33  monthStart <= d < first instant of next month
InCurrentMonth(d) == d \in {"THIS_MONTH", "MONTH_END"}

\* create_budget.ts:33-34, 43-44  monthStart <= d < monthEnd = 23:59:59.999 of the last day
InBudgetWindow(d) == d = "THIS_MONTH"

SeedUsers ==
    (1 :> [email |-> "user@x", username |-> "user", role |-> "USER", is_active |-> TRUE])
    @@ (2 :> [email |-> "manager@x", username |-> "manager", role |-> "MANAGER",
              is_active |-> TRUE])
    @@ (3 :> [email |-> "admin@x", username |-> "admin", role |-> "ADMIN",
              is_active |-> TRUE])

Procs == {"r1", "r2"}

\* The outcome of a call: the handler, whether it returned or threw, the message
\* thrown or returned ("ok" for a returned row) and the id of the row returned
\* no paged query has answered yet
NoPaging == [total |-> 0, page |-> 0, limit |-> 0, total_pages |-> 0]

Returned(op, id, m) == [op |-> op, kind |-> "returned", message |-> m, id |-> id]
Threw(op, m) == [op |-> op, kind |-> "threw", message |-> m, id |-> None]

----------------------------------------------------------------------------
(* Queries and statements shared by the handlers *)

Max(a, b) == IF a >= b THEN a ELSE b

RECURSIVE SumAmounts(_, _)
SumAmounts(rows, ids) ==
    IF ids = {} THEN 0
    ELSE LET i == CHOOSE x \in ids : TRUE
         IN rows[i].amount + SumAmounts(rows, ids \ {i})

\* WHERE user_id = u AND category = c AND is_active = true
ActiveBudgetIds(bs, u, c) ==
    {b \in DOMAIN bs : bs[b].user_id = u /\ bs[b].category = c /\ bs[b].is_active}

\* WHERE user_id = u AND category = c
BudgetIds(bs, u, c) ==
    {b \in DOMAIN bs : bs[b].user_id = u /\ bs[b].category = c}

\* UPDATE budgets SET current_spent = current_spent + delta WHERE id IN ids
AddToBudgets(bs, ids, delta) ==
    [b \in DOMAIN bs |->
        IF b \in ids THEN [bs[b] EXCEPT !.current_spent = @ + delta] ELSE bs[b]]

\* UPDATE budgets SET current_spent = v WHERE id = b
SetSpent(bs, b, v) == [bs EXCEPT ![b].current_spent = v]

\* the current_spent writes that take the rows ids of table old to table new
Writes(old, ids, new) ==
    {<<b, old[b].current_spent, new[b].current_spent>> : b \in ids}

\* the row a query without ORDER BY returns first: any matching row, None if none
FirstOf(ids) == IF ids = {} THEN {None} ELSE {Some(b) : b \in ids}

Insert(table, id, row) ==
    [k \in DOMAIN table \cup {id} |-> IF k = id THEN row ELSE table[k]]

Remove(table, id) == [k \in DOMAIN table \ {id} |-> table[k]]

----------------------------------------------------------------------------
(* approveExpense *)

\* a role check that forgets the managers
CanApproveAdminOnly(role) == role = "ADMIN"

\* approve_expense.ts:18  ['ADMIN', 'MANAGER'].includes(approver[0].role)
CanApprove(role) == role \in {"ADMIN", "MANAGER"}

\* the checks without the test of the expense's status
ApproveCheckAnyStatus(us, es, expense_id, approved_by) ==
    IF approved_by \notin DOMAIN us THEN "Approver not found"
    ELSE IF us[approved_by].role \notin {"ADMIN", "MANAGER"}
        THEN "Insufficient permissions to approve expenses"
    ELSE IF expense_id \notin DOMAIN es THEN "Expense not found"
    ELSE "ok"

\* approve_expense.ts:8-34  the checks before the first write; "ok" when all pass
ApproveCheck(us, es, expense_id, approved_by) ==
    IF approved_by \notin DOMAIN us THEN "Approver not found"
    ELSE IF ~CanApprove(us[approved_by].role)
        THEN "Insufficient permissions to approve expenses"
    ELSE IF expense_id \notin DOMAIN es THEN "Expense not found"
    ELSE IF es[expense_id].status # "PENDING" THEN "Expense is not in pending status"
    ELSE "ok"

\* a status update that stamps approved_at for either decision
ApprovedRowAlwaysStamped(row, approved_by, status) ==
    [row EXCEPT !.status = status,
                !.approved_by = Some(approved_by),
                !.approved_at = "SET"]

\* approve_expense.ts:37-46  the SET clause of the status update
ApprovedRow(row, approved_by, status) ==
    [row EXCEPT !.status = status,
                !.approved_by = Some(approved_by),
                !.approved_at = IF status = "APPROVED" THEN "SET" ELSE NULL]

\* approve_expense.ts:65  parseFloat(current_spent) + expenseAmount
SpentAfterApprove(current_spent, amount) == current_spent + amount

\* a budget update that does not look at the decision
BudgetsAfterApproveAnyDecision(bs, row, status, b) ==
    IF b # None
    THEN SetSpent(bs, Get(b), bs[Get(b)].current_spent + row.amount)
    ELSE bs

\* approve_expense.ts:49-75  the budget update of a decision; b = currentBudget[0]
BudgetsAfterApprove(bs, row, status, b) ==
    IF status = "APPROVED" /\ b # None
    THEN SetSpent(bs, Get(b), SpentAfterApprove(bs[Get(b)].current_spent, row.amount))
    ELSE bs

ApproveWrites(bs, status, b, new) ==
    IF status = "APPROVED" /\ b # None THEN Writes(bs, {Get(b)}, new) ELSE {}

ApproveExpense(expense_id, approved_by, status) ==
    LET check == ApproveCheck(users, expenses, expense_id, approved_by) IN
    /\ UNCHANGED <<users, teams, teamMembers, page, paging, nextExpenseId, reports>>
    /\ IF check # "ok"
       THEN /\ result' = Threw("approveExpense", check)
            /\ spentWrites' = {}
            /\ UNCHANGED <<expenses, budgets>>
       ELSE LET row == ApprovedRow(expenses[expense_id], approved_by, status) IN
            /\ expenses' = [expenses EXCEPT ![expense_id] = row]
            /\ \E b \in FirstOf(ActiveBudgetIds(budgets, row.user_id, row.category)) :
                  /\ budgets' = BudgetsAfterApprove(budgets, row, status, b)
                  /\ spentWrites' = ApproveWrites(budgets, status, b, budgets')
            /\ result' = Returned("approveExpense", Some(expense_id), "ok")

----------------------------------------------------------------------------
(* createExpense *)

\* create_expense.ts:31-47  the inserted row
NewExpenseRow(user_id, amount, category, expense_date) ==
    [user_id |-> user_id, team_id |-> None, amount |-> amount, category |-> category,
     status |-> "PENDING", approved_by |-> None, approved_at |-> NULL,
     expense_date |-> expense_date]

\* a WHERE clause that forgets the user
CreateTargetsAnyOwner(bs, user_id, category) ==
    {b \in DOMAIN bs : bs[b].category = category /\ bs[b].is_active}

\* create_expense.ts:57-62  the rows the budget UPDATE matches
CreateTargets(bs, user_id, category) == ActiveBudgetIds(bs, user_id, category)

\* create_expense.ts:50-64  UPDATE budgets SET current_spent = current_spent + amount
BudgetsAfterCreate(bs, user_id, category, amount) ==
    AddToBudgets(bs, CreateTargets(bs, user_id, category), amount)

\* create_expense.ts:19, 34  `if (input.team_id)` and `input.team_id || null`: a team_id
\* that is absent, null or 0 is falsy, so it is neither looked up nor stored
TeamIdGiven(team_id) == team_id # None /\ Get(team_id) # 0

\* create_expense.ts:6-71  createExpense; team_id is the optional field of its input
CreateExpenseInTeam(user_id, team_id, amount, category, expense_date) ==
    /\ nextExpenseId <= MaxExpenses
    /\ UNCHANGED <<users, teams, teamMembers, page, paging, reports>>
    /\ IF user_id \notin DOMAIN users
       THEN /\ result' = Threw("createExpense",
                               "User with id " \o ToString(user_id) \o " not found")
            /\ spentWrites' = {}
            /\ UNCHANGED <<expenses, nextExpenseId, budgets>>
       ELSE IF TeamIdGiven(team_id) /\ Get(team_id) \notin DOMAIN teams
       THEN /\ result' = Threw("createExpense",
                               "Team with id " \o ToString(Get(team_id)) \o " not found")
            /\ spentWrites' = {}
            /\ UNCHANGED <<expenses, nextExpenseId, budgets>>
       ELSE /\ expenses' = Insert(expenses, nextExpenseId,
                                  [NewExpenseRow(user_id, amount, category, expense_date)
                                      EXCEPT !.team_id = IF TeamIdGiven(team_id)
                                                         THEN team_id ELSE None])
            /\ nextExpenseId' = nextExpenseId + 1
            /\ budgets' = BudgetsAfterCreate(budgets, user_id, category, amount)
            /\ spentWrites' = Writes(budgets, CreateTargets(budgets, user_id, category), budgets')
            /\ result' = Returned("createExpense", Some(nextExpenseId), "ok")

\* createExpense for an input that carries no team_id
CreateExpense(user_id, amount, category, expense_date) ==
    CreateExpenseInTeam(user_id, None, amount, category, expense_date)

----------------------------------------------------------------------------
(* deleteExpense *)

\* a lookup that forgets the owner
OwnedByAnyone(es, expenseId, userId) == expenseId \in DOMAIN es

\* delete_expense.ts:8-15  WHERE id = expenseId AND user_id = userId
OwnedBy(es, expenseId, userId) ==
    expenseId \in DOMAIN es /\ es[expenseId].user_id = userId

\* a subtraction without the floor at zero
SpentAfterDeleteUnclamped(current_spent, amount) == current_spent - amount

\* delete_expense.ts:57  Math.max(0, parseFloat(current_spent) - expenseAmount)
SpentAfterDelete(current_spent, amount) == Max(0, current_spent - amount)

\* delete_expense.ts:44-67  the budget update of a deletion; b = budget[0]
BudgetsAfterDelete(bs, row, b) ==
    IF row.status = "APPROVED" /\ b # None
    THEN SetSpent(bs, Get(b), SpentAfterDelete(bs[Get(b)].current_spent, row.amount))
    ELSE bs

DeleteWrites(bs, row, b, new) ==
    IF row.status = "APPROVED" /\ b # None THEN Writes(bs, {Get(b)}, new) ELSE {}

DeleteExpense(expenseId, userId) ==
    /\ UNCHANGED <<users, teams, teamMembers, page, paging, nextExpenseId, reports>>
    /\ IF ~OwnedBy(expenses, expenseId, userId)
       THEN /\ result' = Returned("deleteExpense", None,
                              "Expense not found or you do not have permission to delete it")
            /\ spentWrites' = {}
            /\ UNCHANGED <<expenses, budgets>>
       ELSE LET row == expenses[expenseId] IN
            /\ expenses' = Remove(expenses, expenseId)
            /\ \E b \in FirstOf(ActiveBudgetIds(budgets, userId, row.category)) :
                  /\ budgets' = BudgetsAfterDelete(budgets, row, b)
                  /\ spentWrites' = DeleteWrites(budgets, row, b, budgets')
            /\ result' = Returned("deleteExpense", None, "Expense deleted successfully")

----------------------------------------------------------------------------
(* updateExpense *)

\* an update that sends the edited expense back to approval
UpdatedRowResetsApproval(row, amount, category, expense_date) ==
    [row EXCEPT !.amount = IF amount # None THEN Get(amount) ELSE @,
                !.category = IF category # None THEN Get(category) ELSE @,
                !.expense_date = IF expense_date # None THEN Get(expense_date) ELSE @,
                !.status = "PENDING", !.approved_by = None, !.approved_at = NULL]

\* part_002:22-42  only the supplied fields are written
UpdatedRow(row, amount, category, expense_date) ==
    [row EXCEPT !.amount = IF amount # None THEN Get(amount) ELSE @,
                !.category = IF category # None THEN Get(category) ELSE @,
                !.expense_date = IF expense_date # None THEN Get(expense_date) ELSE @]

\* part_002:49-89  the budget rows the adjustment writes (no test of is_active)
UpdateTargets(bs, old, new, amount, category) ==
    IF category # None /\ old.category # new.category
    THEN BudgetIds(bs, new.user_id, old.category) \cup BudgetIds(bs, new.user_id, new.category)
    ELSE IF amount # None THEN BudgetIds(bs, new.user_id, new.category)
    ELSE {}

\* an adjustment that moves the old amount to the new category
BudgetsAfterUpdateOldAmount(bs, old, new, amount, category) ==
    IF category # None /\ old.category # new.category
    THEN AddToBudgets(
             AddToBudgets(bs, BudgetIds(bs, new.user_id, old.category), 0 - old.amount),
             BudgetIds(bs, new.user_id, new.category), old.amount)
    ELSE IF amount # None
    THEN AddToBudgets(bs, BudgetIds(bs, new.user_id, new.category), new.amount - old.amount)
    ELSE bs

\* part_002:49-89  the budget adjustment
BudgetsAfterUpdate(bs, old, new, amount, category) ==
    IF amount # None \/ category # None
    THEN IF category # None /\ old.category # new.category
         THEN AddToBudgets(
                  AddToBudgets(bs, BudgetIds(bs, new.user_id, old.category), 0 - old.amount),
                  BudgetIds(bs, new.user_id, new.category), new.amount)
         ELSE IF amount # None
         THEN AddToBudgets(bs, BudgetIds(bs, new.user_id, new.category),
                           new.amount - old.amount)
         ELSE bs
    ELSE bs

UpdateExpense(id, amount, category, expense_date) ==
    /\ UNCHANGED <<users, teams, teamMembers, page, paging, nextExpenseId, reports>>
    /\ IF id \notin DOMAIN expenses
       THEN /\ result' = Threw("updateExpense", "Expense with id " \o ToString(id) \o " not found")
            /\ spentWrites' = {}
            /\ UNCHANGED <<expenses, budgets>>
       ELSE LET old == expenses[id]
                new == UpdatedRow(old, amount, category, expense_date) IN
            /\ expenses' = [expenses EXCEPT ![id] = new]
            /\ budgets' = BudgetsAfterUpdate(budgets, old, new, amount, category)
            /\ spentWrites' = Writes(budgets,
                                     UpdateTargets(budgets, old, new, amount, category),
                                     budgets')
            /\ result' = Returned("updateExpense", Some(id), "ok")

----------------------------------------------------------------------------
(* createBudget, updateBudget, getUserBudgets *)

\* create_budget.ts:31-48  sum over the user's expenses of the category this month
InitialSpent(es, user_id, category) ==
    SumAmounts(es, {e \in DOMAIN es : /\ es[e].user_id = user_id
                                      /\ es[e].category = category
                                      /\ InBudgetWindow(es[e].expense_date)})

\* a duplicate test that overlooks the budgets switched off
ExistingActiveBudget(bs, user_id, category) == ActiveBudgetIds(bs, user_id, category)

\* create_budget.ts:19-25  the budgets of the user for the category, active or not
ExistingBudget(bs, user_id, category) == BudgetIds(bs, user_id, category)

CreateBudget(user_id, category) ==
    /\ Cardinality(DOMAIN budgets) < MaxBudgets
    /\ UNCHANGED <<users, teams, teamMembers, page, paging, expenses, nextExpenseId, reports>>
    /\ spentWrites' = {}
    /\ IF user_id \notin DOMAIN users
       THEN /\ result' = Threw("createBudget", "User not found")
            /\ UNCHANGED budgets
       ELSE IF ExistingBudget(budgets, user_id, category) # {}
       THEN /\ result' = Threw("createBudget", "Budget already exists for this category")
            /\ UNCHANGED budgets
       ELSE /\ budgets' = Insert(budgets, Cardinality(DOMAIN budgets) + 1,
                                 [user_id |-> user_id, category |-> category,
                                  current_spent |-> InitialSpent(expenses, user_id, category),
                                  is_active |-> TRUE])
            /\ result' = Returned("createBudget", Some(Cardinality(DOMAIN budgets) + 1), "ok")

\* part_009:8-42  is_active is written when supplied
UpdateBudget(id, is_active) ==
    /\ UNCHANGED <<users, teams, teamMembers, page, paging, expenses, nextExpenseId, reports>>
    /\ spentWrites' = {}
    /\ IF id \notin DOMAIN budgets
       THEN /\ result' = Threw("updateBudget", "Budget not found")
            /\ UNCHANGED budgets
       ELSE /\ budgets' = [budgets EXCEPT ![id].is_active =
                              IF is_active # None THEN Get(is_active) ELSE @]
            /\ result' = Returned("updateBudget", Some(id), "ok")

\* get_user_budgets.ts:23-38  sum of the user's APPROVED expenses of the category this month
RecomputedSpent(es, user_id, category) ==
    SumAmounts(es, {e \in DOMAIN es : /\ es[e].user_id = user_id
                                      /\ es[e].category = category
                                      /\ es[e].status = "APPROVED"
                                      /\ InCurrentMonth(es[e].expense_date)})

\* get_user_budgets.ts:14-57  every budget of the user is overwritten with the recomputed sum
GetUserBudgets(userId) ==
    LET mine == {b \in DOMAIN budgets : budgets[b].user_id = userId} IN
    /\ UNCHANGED <<users, teams, teamMembers, page, paging, expenses, nextExpenseId, reports>>
    /\ budgets' = [b \in DOMAIN budgets |->
                     IF b \in mine
                     THEN [budgets[b] EXCEPT !.current_spent =
                              RecomputedSpent(expenses, userId, budgets[b].category)]
                     ELSE budgets[b]]
    /\ spentWrites' = Writes(budgets, mine, budgets')
    /\ result' = Returned("getUserBudgets", None, "ok")

-----------------------------------------------------------------------------
(* createTeam (part_000) *)

\* a manager check that never looks at is_active
ManagerCheckIgnoresActive(us, manager_id) ==
    IF manager_id \notin DOMAIN us THEN "Manager not found"
    ELSE IF us[manager_id].role \notin {"MANAGER", "ADMIN"}
    THEN "User does not have manager privileges"
    ELSE "ok"

\* part_000:9-24  the three checks on the manager, in the order of the code
ManagerCheck(us, manager_id) ==
    IF manager_id \notin DOMAIN us THEN "Manager not found"
    ELSE IF us[manager_id].role \notin {"MANAGER", "ADMIN"}
    THEN "User does not have manager privileges"
    ELSE IF ~us[manager_id].is_active THEN "Manager account is not active"
    ELSE "ok"

\* serial primary keys of tables whose rows are never deleted
NextId(table) == Cardinality(DOMAIN table) + 1

\* part_000:6-50  createTeam: INSERT teams, then INSERT team_members (team.id, manager_id)
CreateTeam(manager_id) ==
    /\ Cardinality(DOMAIN teams) < MaxTeams
    /\ UNCHANGED <<users, page, paging, expenses, nextExpenseId, budgets, reports>>
    /\ spentWrites' = {}
    /\ IF ManagerCheck(users, manager_id) # "ok"
       THEN /\ result' = Threw("createTeam", ManagerCheck(users, manager_id))
            /\ UNCHANGED <<teams, teamMembers>>
       ELSE /\ teams' = Insert(teams, NextId(teams), [manager_id |-> manager_id])
            /\ teamMembers' = Insert(teamMembers, NextId(teamMembers),
                                     [team_id |-> NextId(teams), user_id |-> manager_id])
            /\ result' = Returned("createTeam", Some(NextId(teams)), "ok")

-----------------------------------------------------------------------------
(* addTeamMember (part_001) *)

\* a membership lookup by user alone
AlreadyMemberOfAnyTeam(tm, team_id, user_id) ==
    \E m \in DOMAIN tm : tm[m].user_id = user_id

\* part_001:29-41  SELECT FROM team_members WHERE team_id = .. AND user_id = ..
AlreadyMember(tm, team_id, user_id) ==
    \E m \in DOMAIN tm : tm[m].team_id = team_id /\ tm[m].user_id = user_id

\* part_001:6-57  addTeamMember
AddTeamMember(team_id, user_id) ==
    /\ UNCHANGED <<users, teams, page, paging, expenses, nextExpenseId, budgets, reports>>
    /\ spentWrites' = {}
    /\ IF team_id \notin DOMAIN teams
       THEN /\ result' = Threw("addTeamMember", "Team not found")
            /\ UNCHANGED teamMembers
       ELSE IF user_id \notin DOMAIN users
       THEN /\ result' = Threw("addTeamMember", "User not found")
            /\ UNCHANGED teamMembers
       ELSE IF AlreadyMember(teamMembers, team_id, user_id)
       THEN /\ result' = Threw("addTeamMember", "User is already a member of this team")
            /\ UNCHANGED teamMembers
       ELSE /\ teamMembers' = Insert(teamMembers, NextId(teamMembers),
                                     [team_id |-> team_id, user_id |-> user_id])
            /\ result' = Returned("addTeamMember", Some(NextId(teamMembers)), "ok")

-----------------------------------------------------------------------------
(* getTeamExpenses (handlers/get_team_expenses.ts) *)

\* the sequences that list every element of S once: the rows of a SELECT without
\* ORDER BY come in an order the database chooses
Orderings(S) ==
    {q \in [1..Cardinality(S) -> S] : \A i, j \in 1..Cardinality(S) : q[i] = q[j] => i = j}

\* an access test that lets the manager of any team read
MayReadTeamAnyManager(ts, teamId, managerId) ==
    \E t \in DOMAIN ts : ts[t].manager_id = managerId

\* get_team_expenses.ts:18  team[0].manager_id !== managerId
MayReadTeam(ts, teamId, managerId) == ts[teamId].manager_id = managerId

\* get_team_expenses.ts:23-26  SELECT FROM expenses WHERE team_id = teamId
TeamExpenseIds(es, teamId) == {e \in DOMAIN es : es[e].team_id = Some(teamId)}

\* get_team_expenses.ts:6-37  getTeamExpenses
GetTeamExpenses(teamId, managerId) ==
    /\ UNCHANGED <<users, teams, teamMembers, paging, expenses, nextExpenseId, budgets, reports>>
    /\ spentWrites' = {}
    /\ IF teamId \notin DOMAIN teams
       THEN /\ result' = Threw("getTeamExpenses", "Team not found")
            /\ page' = <<>>
       ELSE IF ~MayReadTeam(teams, teamId, managerId)
       THEN /\ result' = Threw("getTeamExpenses",
                               "Access denied: You are not the manager of this team")
            /\ page' = <<>>
       ELSE /\ result' = Returned("getTeamExpenses", None, "ok")
            /\ page' \in Orderings(TeamExpenseIds(expenses, teamId))

-----------------------------------------------------------------------------
(* getUserExpenses (handlers/get_user_expenses.ts:6-77) *)

\* the order of the three dates of the model in time
DateRank(d) == CASE d = "PREV_MONTH" -> 1 [] d = "THIS_MONTH" -> 2 [] d = "MONTH_END" -> 3

\* get_user_expenses.ts:9-37  user_id and every supplied filter, joined by AND;
\* gte and lte include the bounds
Matches(row, user_id, category, status, date_from, date_to) ==
    /\ row.user_id = user_id
    /\ category # None => row.category = Get(category)
    /\ status # None => row.status = Get(status)
    /\ date_from # None => DateRank(row.expense_date) >= DateRank(Get(date_from))
    /\ date_to # None => DateRank(row.expense_date) <= DateRank(Get(date_to))

\* get_user_expenses.ts:46  ORDER BY expense_date DESC: rows of equal date come in
\* an order the database chooses
NewestFirst(es, ids) ==
    {q \in Orderings(ids) :
        \A i, j \in DOMAIN q :
           i < j => DateRank(es[q[i]].expense_date) >= DateRank(es[q[j]].expense_date)}

\* an offset that counts pages from zero
PageOffsetFromZero(pageNo, limit) == pageNo * limit

\* get_user_expenses.ts:40  offset = (input.page - 1) * input.limit
PageOffset(pageNo, limit) == (pageNo - 1) * limit

\* get_user_expenses.ts:47-48  LIMIT limit OFFSET offset
Slice(q, offset, limit) ==
    SubSeq(q, offset + 1, IF offset + limit < Len(q) THEN offset + limit ELSE Len(q))

\* get_user_expenses.ts:58  Math.ceil(total / input.limit)
CeilDiv(total, limit) == (total + limit - 1) \div limit

\* get_user_expenses.ts:6-77  getUserExpenses: the page query, then the count query
GetUserExpenses(user_id, category, status, date_from, date_to, pageNo, limit) ==
    LET ids == {e \in DOMAIN expenses :
                  Matches(expenses[e], user_id, category, status, date_from, date_to)} IN
    /\ UNCHANGED <<users, teams, teamMembers, expenses, nextExpenseId, budgets, reports>>
    /\ spentWrites' = {}
    /\ \E q \in NewestFirst(expenses, ids) :
          page' = Slice(q, PageOffset(pageNo, limit), limit)
    /\ paging' = [total |-> Cardinality(ids), page |-> pageNo, limit |-> limit,
                  total_pages |-> CeilDiv(Cardinality(ids), limit)]
    /\ result' = Returned("getUserExpenses", None, "ok")

-----------------------------------------------------------------------------
(* getPendingApprovals (part_011) *)

\* part_011:23-32  expenses INNER JOIN teams ON team_id = teams.id
\* WHERE status = 'PENDING' AND teams.manager_id = managerId
PendingApprovalIds(es, ts, managerId) ==
    {e \in DOMAIN es :
        /\ es[e].status = "PENDING"
        /\ es[e].team_id # None
        /\ Get(es[e].team_id) \in DOMAIN ts
        /\ ts[Get(es[e].team_id)].manager_id = managerId}

\* part_011:6-44  getPendingApprovals
GetPendingApprovals(managerId) ==
    /\ UNCHANGED <<users, teams, teamMembers, paging, expenses, nextExpenseId, budgets, reports>>
    /\ spentWrites' = {}
    /\ IF managerId \notin DOMAIN users
       THEN /\ result' = Threw("getPendingApprovals", "Manager not found")
            /\ page' = <<>>
       ELSE IF users[managerId].role \notin {"MANAGER", "ADMIN"}
       THEN /\ result' = Threw("getPendingApprovals",
                               "User is not authorized to approve expenses")
            /\ page' = <<>>
       ELSE /\ result' = Returned("getPendingApprovals", None, "ok")
            /\ page' \in NewestFirst(expenses, PendingApprovalIds(expenses, teams, managerId))

-----------------------------------------------------------------------------
(* generateReport (handlers/generate_report.ts) *)

\* the member column of a joined row that no team_members row matched
NoMember == 0

\* generate_report.ts:38-41  expenses LEFT JOIN teams ON team_id = teams.id
\* LEFT JOIN team_members ON teams.id = team_members.team_id: one row <<e, m>> for
\* each member row m of the team of e, one row <<e, NoMember>> when there is none
JoinedRows(es, ts, tm) ==
    UNION {LET members == {m \in DOMAIN tm :
                             /\ es[e].team_id # None
                             /\ Get(es[e].team_id) \in DOMAIN ts
                             /\ tm[m].team_id = Get(es[e].team_id)}
           IN IF members = {} THEN {<<e, NoMember>>} ELSE {<<e, m>> : m \in members}
           : e \in DOMAIN es}

\* generate_report.ts:28-34  the date range, bounds included, and the categories,
\* when the list is given and not empty
InReportRange(row, date_from, date_to, categories) ==
    /\ DateRank(row.expense_date) >= DateRank(date_from)
    /\ DateRank(row.expense_date) <= DateRank(date_to)
    /\ categories # {} => row.category \in categories

\* generate_report.ts:36-59  the rows of the query, joined or not
ReportRows(es, ts, tm, user_id, date_from, date_to, categories, include_team_expenses) ==
    IF include_team_expenses
    THEN {r \in JoinedRows(es, ts, tm) :
             /\ InReportRange(es[r[1]], date_from, date_to, categories)
             /\ \/ es[r[1]].user_id = user_id
                \/ r[2] # NoMember /\ tm[r[2]].user_id = user_id}
    ELSE {<<e, NoMember>> : e \in {x \in DOMAIN es :
                                      /\ InReportRange(es[x], date_from, date_to, categories)
                                      /\ es[x].user_id = user_id}}

\* generate_report.ts:79  expenses.reduce((sum, expense) => sum + expense.amount, 0)
RECURSIVE SumRows(_, _)
SumRows(es, rows) ==
    IF rows = {} THEN 0
    ELSE LET r == CHOOSE x \in rows : TRUE
         IN es[r[1]].amount + SumRows(es, rows \ {r})

\* generate_report.ts:81-89  count and amount per category of the rows
CategoryBreakdown(es, rows) ==
    [c \in {es[r[1]].category : r \in rows} |->
        LET of == {r \in rows : es[r[1]].category = c}
        IN [count |-> Cardinality(of), amount |-> SumRows(es, of)]]

\* generate_report.ts:6-145  generateReport
GenerateReport(user_id, date_from, date_to, categories, include_team_expenses) ==
    /\ UNCHANGED <<users, teams, teamMembers, page, paging, expenses, nextExpenseId, budgets>>
    /\ spentWrites' = {}
    /\ IF DateRank(date_from) > DateRank(date_to)
       THEN /\ result' = Threw("generateReport",
                   "Invalid date range: date_from must be before or equal to date_to")
            /\ UNCHANGED reports
       ELSE IF user_id \notin DOMAIN users
       THEN /\ result' = Threw("generateReport",
                               "User with id " \o ToString(user_id) \o " not found")
            /\ UNCHANGED reports
       ELSE LET rows == ReportRows(expenses, teams, teamMembers, user_id, date_from,
                                   date_to, categories, include_team_expenses) IN
            /\ reports' = Insert(reports, NextId(reports),
                  [user_id |-> user_id,
                   filters |-> [date_from |-> date_from, date_to |-> date_to,
                                categories |-> categories,
                                include_team_expenses |-> include_team_expenses,
                                total_expenses |-> Cardinality(rows),
                                total_amount |-> SumRows(expenses, rows),
                                category_breakdown |-> CategoryBreakdown(expenses, rows)]])
            /\ result' = Returned("generateReport", Some(NextId(reports)), "ok")

----------------------------------------------------------------------------
(* Sequential execution: one handler call at a time, each run to completion *)

Idle == [p \in Procs |-> "idle"]
NoLocals == [p \in Procs |-> NULL]

Init ==
    /\ users = SeedUsers
    /\ teams = <<>>
    /\ teamMembers = <<>>
    /\ page = <<>>
    /\ paging = NoPaging
    /\ reports = <<>>
    /\ expenses = <<>>
    /\ nextExpenseId = 1
    /\ budgets = <<>>
    /\ result = Returned("none", None, "ok")
    /\ spentWrites = {}
    /\ calls = 0
    /\ pc = Idle
    /\ loc = NoLocals

\* The inputs the calls are drawn from: the id of every registered user and one
\* that belongs to nobody; the id of every stored row and one that has no row
\* (the next serial id); expense owners and budget owners among the first two
\* users
MissingUser == Cardinality(DOMAIN SeedUsers) + 1
UserIdInputs == DOMAIN SeedUsers \cup {MissingUser}
OwnerInputs == {1, 2, MissingUser}
ExpenseIdInputs == DOMAIN expenses \cup {nextExpenseId}
BudgetIdInputs == DOMAIN budgets \cup {Cardinality(DOMAIN budgets) + 1}

\* A handler call runs to completion while no other request is in flight
Begin ==
    /\ calls < MaxCalls
    /\ calls' = calls + 1
    /\ UNCHANGED <<pc, loc>>

DoCreateExpense(owners, dates) ==
    \E u \in owners, a \in Amounts, c \in Categories, d \in dates :
        Begin /\ CreateExpense(u, a, c, d)

DoUpdateExpense(dates) ==
    \E e \in ExpenseIdInputs, a \in Optional(Amounts), c \in Optional(Categories),
       d \in dates :
        Begin /\ UpdateExpense(e, a, c, d)

DoApproveExpense ==
    \E e \in ExpenseIdInputs, u \in UserIdInputs, s \in Decisions :
        Begin /\ ApproveExpense(e, u, s)

DoDeleteExpense(owners) ==
    \E e \in ExpenseIdInputs, u \in owners : Begin /\ DeleteExpense(e, u)

DoCreateBudget(owners) ==
    \E u \in owners, c \in Categories : Begin /\ CreateBudget(u, c)

DoUpdateBudget ==
    \E b \in BudgetIdInputs, a \in Optional(BOOLEAN) : Begin /\ UpdateBudget(b, a)

DoGetUserBudgets(owners) == \E u \in owners : Begin /\ GetUserBudgets(u)

\* Every handler, on expenses dated in the current month
Next ==
    \/ DoCreateExpense(OwnerInputs, {"THIS_MONTH"})
    \/ DoUpdateExpense({None})
    \/ DoApproveExpense
    \/ DoDeleteExpense(OwnerInputs)
    \/ DoCreateBudget(OwnerInputs)
    \/ DoUpdateBudget
    \/ DoGetUserBudgets(OwnerInputs)

Spec == Init /\ [][Next]_vars

\* Every handler for one owner, on expenses dated in this month or the previous one
NextDated ==
    \/ DoCreateExpense({1, MissingUser}, ExpenseDates)
    \/ DoUpdateExpense(Optional(ExpenseDates))
    \/ DoApproveExpense
    \/ DoDeleteExpense({1, 2})
    \/ DoCreateBudget({1, MissingUser})
    \/ DoUpdateBudget
    \/ DoGetUserBudgets({1})

SpecDated == Init /\ [][NextDated]_vars

\* the handlers that write current_spent, on expenses of the current month,
\* and getUserBudgets, which recomputes it
NextLedger ==
    \/ DoCreateBudget({1, 2, MissingUser})
    \/ DoCreateExpense({1, 2, MissingUser}, {"THIS_MONTH"})
    \/ DoUpdateExpense({None})
    \/ DoApproveExpense
    \/ DoDeleteExpense({1, 2})
    \/ DoGetUserBudgets({1, 2})

SpecLedger == Init /\ [][NextLedger]_vars

\* budgets created over expenses dated anywhere, the end of the month included
NextBudgetInit ==
    \/ DoCreateExpense(OwnerInputs, AllDates)
    \/ DoCreateBudget(OwnerInputs)
    \/ DoGetUserBudgets({1, 2})

SpecBudgetInit == Init /\ [][NextBudgetInit]_vars

\* usersTable.is_active (db/schema.ts:51) is a stored column that no handler of the
\* repository clears; a deactivated manager is a row put there by administration
TeamUsers ==
    SeedUsers @@ (4 :> [email |-> "former@x", username |-> "former", role |-> "MANAGER",
                        is_active |-> FALSE])

InitTeams ==
    /\ users = TeamUsers
    /\ teams = <<>>
    /\ teamMembers = <<>>
    /\ page = <<>>
    /\ paging = NoPaging
    /\ reports = <<>>
    /\ expenses = <<>>
    /\ nextExpenseId = 1
    /\ budgets = <<>>
    /\ result = Returned("none", None, "ok")
    /\ spentWrites = {}
    /\ calls = 0
    /\ pc = Idle
    /\ loc = NoLocals

AbsentUser == Cardinality(DOMAIN TeamUsers) + 1
ManagerIdInputs == DOMAIN TeamUsers \cup {AbsentUser}

\* team_id of an input: absent, 0, a stored team, or the next id not yet given out
TeamIdInputs == {None, Some(0)} \cup {Some(t) : t \in DOMAIN teams \cup {NextId(teams)}}

DoCreateTeam == \E m \in ManagerIdInputs : Begin /\ CreateTeam(m)

DoCreateExpenseInTeam(owners) ==
    \E u \in owners, t \in TeamIdInputs, a \in Amounts :
        Begin /\ CreateExpenseInTeam(u, t, a, "FOOD_DINING", "THIS_MONTH")

\* expenses attributed to teams, with budgets of their owners
NextTeamExpense ==
    \/ DoCreateTeam
    \/ DoCreateBudget({1})
    \/ DoCreateExpenseInTeam({1, AbsentUser})
    \/ DoUpdateExpense({None, Some("PREV_MONTH")})
    \/ DoApproveExpense

SpecTeamExpense == InitTeams /\ [][NextTeamExpense]_vars

\* team_id of a call on a team: a stored team or the next id not yet given out
StoredOrNextTeam == DOMAIN teams \cup {NextId(teams)}
MemberIdInputs == {1, 2, AbsentUser}

DoAddTeamMember ==
    \E t \in StoredOrNextTeam, u \in MemberIdInputs : Begin /\ AddTeamMember(t, u)

\* teams and their members
NextTeams ==
    \/ DoCreateTeam
    \/ DoAddTeamMember

SpecTeams == InitTeams /\ [][NextTeams]_vars

\* two teams as createTeam leaves them: team 1 of the manager, team 2 of the
\* administrator, each with its manager as the one member
InitTwoTeams ==
    /\ users = SeedUsers
    /\ teams = (1 :> [manager_id |-> 2]) @@ (2 :> [manager_id |-> 3])
    /\ teamMembers = (1 :> [team_id |-> 1, user_id |-> 2])
                     @@ (2 :> [team_id |-> 2, user_id |-> 3])
    /\ page = <<>>
    /\ paging = NoPaging
    /\ reports = <<>>
    /\ expenses = <<>>
    /\ nextExpenseId = 1
    /\ budgets = <<>>
    /\ result = Returned("none", None, "ok")
    /\ spentWrites = {}
    /\ calls = 0
    /\ pc = Idle
    /\ loc = NoLocals

DoGetTeamExpenses ==
    \E t \in StoredOrNextTeam, m \in DOMAIN SeedUsers : Begin /\ GetTeamExpenses(t, m)

\* expenses of teams, decided or not, read by team
NextTeamQuery ==
    \/ DoCreateExpenseInTeam({1})
    \/ DoApproveExpense
    \/ DoGetTeamExpenses

SpecTeamQuery == InitTwoTeams /\ [][NextTeamQuery]_vars

\* the filters, pages and limits a paged query is called with
CategoryFilters == Optional({"FOOD_DINING"})
StatusFilters == Optional({"APPROVED"})
DateFilters == Optional({"THIS_MONTH"})
PageInputs == 1..MaxExpenses
LimitInputs == 1..2

\* the rows createExpense and approveExpense leave: an expense of user 1 or 2 on
\* any date, a pending or approved meal or an approved journey
QueryRows ==
    {NewExpenseRow(u, 2500, "FOOD_DINING", d) : u \in {1, 2}, d \in AllDates}
    \cup {ApprovedRow(NewExpenseRow(u, 2500, c, d), 2, "APPROVED") :
             u \in {1, 2}, c \in Categories, d \in AllDates}

\* the query reads and writes nothing, so it is taken as a function of the table it
\* is asked on: every table of up to MaxExpenses such rows is a starting point
InitUserQuery ==
    /\ users = SeedUsers
    /\ teams = <<>>
    /\ teamMembers = <<>>
    /\ page = <<>>
    /\ paging = NoPaging
    /\ reports = <<>>
    /\ \E n \in 0..MaxExpenses :
          /\ expenses \in [1..n -> QueryRows]
          /\ nextExpenseId = n + 1
    /\ budgets = <<>>
    /\ result = Returned("none", None, "ok")
    /\ spentWrites = {}
    /\ calls = 0
    /\ pc = Idle
    /\ loc = NoLocals

\* one query per table: a second one would be asked on the same rows.  The request
\* keeps its input, as GetUserExpensesInput, for as long as its answer stands
BeginQuery(input) ==
    /\ calls = 0
    /\ calls' = 1
    /\ loc' = [loc EXCEPT !["r1"] = input]
    /\ UNCHANGED pc

DoGetUserExpenses ==
    \E u \in {1, 2}, c \in CategoryFilters, s \in StatusFilters,
       f \in DateFilters, t \in DateFilters, p \in PageInputs, l \in LimitInputs :
        /\ BeginQuery([user_id |-> u, category |-> c, status |-> s, date_from |-> f,
                       date_to |-> t, page |-> p, limit |-> l])
        /\ GetUserExpenses(u, c, s, f, t, p, l)

NextUserQuery == DoGetUserExpenses

SpecUserQuery == InitUserQuery /\ [][NextUserQuery]_vars

\* The life of one expense at a time under a budget of its category: user 1 sets up
\* budgets while no expense is stored, creates an expense only when none is stored
\* and an active budget of the category exists, has the manager decide it at most
\* once, and deletes it.  No other call is made.
NoExpenseStored == DOMAIN expenses = {}

DoCreateBudgetBefore == NoExpenseStored /\ DoCreateBudget({1})

DoCreateBudgetedExpense ==
    /\ NoExpenseStored
    /\ \E a \in Amounts, c \in Categories :
          /\ ActiveBudgetIds(budgets, 1, c) # {}
          /\ Begin /\ CreateExpense(1, a, c, "THIS_MONTH")

DoDecidePending ==
    \E e \in DOMAIN expenses, s \in Decisions :
       /\ expenses[e].status = "PENDING"
       /\ Begin /\ ApproveExpense(e, 2, s)

DoDeleteOwn == \E e \in DOMAIN expenses : Begin /\ DeleteExpense(e, 1)

NextRoundTrip ==
    \/ DoCreateBudgetBefore
    \/ DoCreateBudgetedExpense
    \/ DoDecidePending
    \/ DoDeleteOwn

SpecRoundTrip == Init /\ [][NextRoundTrip]_vars

DoGetPendingApprovals == \E m \in UserIdInputs : Begin /\ GetPendingApprovals(m)

\* expenses of two teams and of no team, listed for their managers and decided
NextRouting ==
    \/ DoCreateExpenseInTeam({1})
    \/ DoGetPendingApprovals
    \/ DoApproveExpense

SpecRouting == InitTwoTeams /\ [][NextRouting]_vars

\* the rows createExpense leaves: an expense of user 1 or 2, of no team or of team 1
\* or 2, of either amount, category and month
ReportedRows ==
    {[NewExpenseRow(u, a, c, d) EXCEPT !.team_id = t] :
        u \in {1, 2}, t \in {None, Some(1), Some(2)},
        a \in Amounts, c \in Categories, d \in ExpenseDates}

\* the report reads the expenses and writes only its own row, so it is taken as a
\* function of the table it is asked on.  Team 1 is the manager's, joined by user 1
\* through addTeamMember; team 2 is the administrator's alone
InitReports ==
    /\ users = SeedUsers
    /\ teams = (1 :> [manager_id |-> 2]) @@ (2 :> [manager_id |-> 3])
    /\ teamMembers = (1 :> [team_id |-> 1, user_id |-> 2])
                     @@ (2 :> [team_id |-> 2, user_id |-> 3])
                     @@ (3 :> [team_id |-> 1, user_id |-> 1])
    /\ page = <<>>
    /\ paging = NoPaging
    /\ reports = <<>>
    /\ \E n \in 0..MaxExpenses :
          /\ expenses \in [1..n -> ReportedRows]
          /\ nextExpenseId = n + 1
    /\ budgets = <<>>
    /\ result = Returned("none", None, "ok")
    /\ spentWrites = {}
    /\ calls = 0
    /\ pc = Idle
    /\ loc = NoLocals

DoGenerateReport ==
    \E u \in {1, MissingUser}, f \in ExpenseDates, t \in ExpenseDates,
       cs \in {{}, {"FOOD_DINING"}}, i \in BOOLEAN :
        /\ BeginQuery([user_id |-> u, date_from |-> f, date_to |-> t, categories |-> cs,
                       include_team_expenses |-> i])
        /\ GenerateReport(u, f, t, cs, i)

NextReports == DoGenerateReport

SpecReports == InitReports /\ [][NextReports]_vars

----------------------------------------------------------------------------
(* Concurrent requests: a handler is suspended at each await, and the       *)
(* statements of the requests in flight interleave.  No handler opens a     *)
(* transaction, so every statement commits on its own.                      *)

\* The store the requests start from: user 1 has an active FOOD_DINING budget
\* and two expenses of that category, each PENDING or APPROVED by the manager;
\* current_spent is what getUserBudgets followed by the approvals left
StartExpense(amount, status) ==
    [user_id |-> 1, team_id |-> None, amount |-> amount, category |-> "FOOD_DINING",
     status |-> status,
     approved_by |-> IF status = "APPROVED" THEN Some(2) ELSE None,
     approved_at |-> IF status = "APPROVED" THEN "SET" ELSE NULL,
     expense_date |-> "THIS_MONTH"]

InitConc ==
    /\ users = SeedUsers
    /\ teams = <<>>
    /\ teamMembers = <<>>
    /\ page = <<>>
    /\ paging = NoPaging
    /\ reports = <<>>
    /\ \E s1, s2 \in {"PENDING", "APPROVED"} :
          /\ expenses = (1 :> StartExpense(2500, s1)) @@ (2 :> StartExpense(3550, s2))
          /\ budgets = (1 :> [user_id |-> 1, category |-> "FOOD_DINING",
                              current_spent |-> RecomputedSpent(expenses, 1, "FOOD_DINING"),
                              is_active |-> TRUE])
    /\ nextExpenseId = 3
    /\ result = Returned("none", None, "ok")
    /\ spentWrites = {}
    /\ calls = 0
    /\ pc = Idle
    /\ loc = NoLocals

\* the locals of a request: its arguments, the expense row and the budget row it
\* holds, the current_spent it read from that budget row, and the statement at
\* which it failed, if it did
Locals(op, expense_id, user, status, amount) ==
    [op |-> op, expense_id |-> expense_id, user |-> user, status |-> status,
     amount |-> amount, row |-> None, budget |-> None, read |-> 0, at |-> NULL]

Goto(p, label) == pc' = [pc EXCEPT ![p] = label]

\* the handler returns or throws: the request is over
Finish(p, outcome) ==
    /\ Goto(p, "done")
    /\ result' = outcome
    /\ calls' = calls + 1

Continue(p, label) ==
    /\ Goto(p, label)
    /\ UNCHANGED <<result, calls>>

StartRequest(p) ==
    /\ pc[p] = "idle"
    /\ UNCHANGED <<users, teams, teamMembers, page, paging, expenses, nextExpenseId, budgets, result, spentWrites, calls, reports>>
    /\ \/ \E e \in {1, 2}, u \in {1, 2}, s \in Decisions :
             /\ loc' = [loc EXCEPT ![p] = Locals("approveExpense", e, u, s, 0)]
             /\ Goto(p, "approve_select_approver")
       \/ \E e \in {1, 2} :
             /\ loc' = [loc EXCEPT ![p] = Locals("deleteExpense", e, 1, NULL, 0)]
             /\ Goto(p, "delete_select_expense")
       \/ /\ loc' = [loc EXCEPT ![p] = Locals("createExpense", 0, 1, NULL, 2500)]
          /\ Goto(p, "create_select_user")

\* approve_expense.ts:9-20  select the approver, check the role
ApproveSelectApprover(p) ==
    LET l == loc[p]
        check == ApproveCheck(users, expenses, l.expense_id, l.user) IN
    /\ pc[p] = "approve_select_approver"
    /\ UNCHANGED <<users, teams, teamMembers, page, paging, expenses, nextExpenseId, budgets, spentWrites, loc, reports>>
    /\ IF check \in {"Approver not found", "Insufficient permissions to approve expenses"}
       THEN Finish(p, Threw("approveExpense", check))
       ELSE Continue(p, "approve_select_expense")

\* approve_expense.ts:23-34  select the expense, check that it is PENDING
ApproveSelectExpense(p) ==
    LET l == loc[p]
        check == ApproveCheck(users, expenses, l.expense_id, l.user) IN
    /\ pc[p] = "approve_select_expense"
    /\ UNCHANGED <<users, teams, teamMembers, page, paging, expenses, nextExpenseId, budgets, spentWrites, reports>>
    /\ IF check # "ok"
       THEN /\ Finish(p, Threw("approveExpense", check))
            /\ UNCHANGED loc
       ELSE /\ Continue(p, "approve_update_expense")
            /\ loc' = [loc EXCEPT ![p].row = Some(expenses[l.expense_id])]

\* approve_expense.ts:37-51, 78-82  UPDATE expenses ... WHERE id RETURNING; when no
\* row is left, updatedExpense[0] is undefined and reading its amount throws
ApproveUpdateExpense(p) ==
    LET l == loc[p] IN
    /\ pc[p] = "approve_update_expense"
    /\ UNCHANGED <<users, teams, teamMembers, page, paging, nextExpenseId, budgets, spentWrites, reports>>
    /\ IF l.expense_id \notin DOMAIN expenses
       THEN /\ Finish(p, Threw("approveExpense", "TypeError"))
            /\ UNCHANGED <<expenses, loc>>
       ELSE LET row == ApprovedRow(expenses[l.expense_id], l.user, l.status) IN
            /\ expenses' = [expenses EXCEPT ![l.expense_id] = row]
            /\ loc' = [loc EXCEPT ![p].row = Some(row), ![p].amount = row.amount]
            /\ IF l.status = "APPROVED"
               THEN Continue(p, "approve_select_budget")
               ELSE Finish(p, Returned("approveExpense", Some(l.expense_id), "ok"))

\* approve_expense.ts:55-64  select the owner's active budget of the category
ApproveSelectBudget(p) ==
    LET l == loc[p]
        row == Get(l.row) IN
    /\ pc[p] = "approve_select_budget"
    /\ UNCHANGED <<users, teams, teamMembers, page, paging, expenses, nextExpenseId, budgets, spentWrites, reports>>
    /\ \E b \in FirstOf(ActiveBudgetIds(budgets, row.user_id, row.category)) :
          IF b = None
          THEN /\ Finish(p, Returned("approveExpense", Some(l.expense_id), "ok"))
               /\ UNCHANGED loc
          ELSE /\ Continue(p, "approve_update_budget")
               /\ loc' = [loc EXCEPT ![p].budget = b,
                                     ![p].read = budgets[Get(b)].current_spent]

\* a budget write made by the database from the row as it is now
WriteSpentInPlace(bs, b, read, new) == SetSpent(bs, b, bs[b].current_spent + (new - read))

\* approve_expense.ts:65-73, delete_expense.ts:57-65  the handler writes back the
\* value it computed from the current_spent it read
WriteSpent(bs, b, read, new) == SetSpent(bs, b, new)

ApproveUpdateBudget(p) ==
    LET l == loc[p] IN
    /\ pc[p] = "approve_update_budget"
    /\ UNCHANGED <<users, teams, teamMembers, page, paging, expenses, nextExpenseId, spentWrites, loc, reports>>
    /\ budgets' = WriteSpent(budgets, Get(l.budget), l.read,
                             SpentAfterApprove(l.read, l.amount))
    /\ Finish(p, Returned("approveExpense", Some(l.expense_id), "ok"))

\* delete_expense.ts:8-25  select the expense by id and owner
DeleteSelectExpense(p) ==
    LET l == loc[p] IN
    /\ pc[p] = "delete_select_expense"
    /\ UNCHANGED <<users, teams, teamMembers, page, paging, expenses, nextExpenseId, budgets, spentWrites, reports>>
    /\ IF ~OwnedBy(expenses, l.expense_id, l.user)
       THEN /\ Finish(p, Returned("deleteExpense", None,
                   "Expense not found or you do not have permission to delete it"))
            /\ UNCHANGED loc
       ELSE /\ Continue(p, "delete_delete_expense")
            /\ loc' = [loc EXCEPT ![p].row = Some(expenses[l.expense_id]),
                                  ![p].amount = expenses[l.expense_id].amount]

\* delete_expense.ts:28-44  DELETE by id and owner; rowCount is 0 when another
\* request removed the row first; the status tested is the one read before
DeleteDeleteExpense(p) ==
    LET l == loc[p] IN
    /\ pc[p] = "delete_delete_expense"
    /\ UNCHANGED <<users, teams, teamMembers, page, paging, nextExpenseId, budgets, spentWrites, loc, reports>>
    /\ IF ~OwnedBy(expenses, l.expense_id, l.user)
       THEN /\ Finish(p, Returned("deleteExpense", None, "Failed to delete expense"))
            /\ UNCHANGED expenses
       ELSE /\ expenses' = Remove(expenses, l.expense_id)
            /\ IF Get(l.row).status = "APPROVED"
               THEN Continue(p, "delete_select_budget")
               ELSE Finish(p, Returned("deleteExpense", None,
                                       "Expense deleted successfully"))

\* delete_expense.ts:45-56  select the user's active budget of the category
DeleteSelectBudget(p) ==
    LET l == loc[p] IN
    /\ pc[p] = "delete_select_budget"
    /\ UNCHANGED <<users, teams, teamMembers, page, paging, expenses, nextExpenseId, budgets, spentWrites, reports>>
    /\ \E b \in FirstOf(ActiveBudgetIds(budgets, l.user, Get(l.row).category)) :
          IF b = None
          THEN /\ Finish(p, Returned("deleteExpense", None,
                                     "Expense deleted successfully"))
               /\ UNCHANGED loc
          ELSE /\ Continue(p, "delete_update_budget")
               /\ loc' = [loc EXCEPT ![p].budget = b,
                                     ![p].read = budgets[Get(b)].current_spent]

\* delete_expense.ts:57-72
DeleteUpdateBudget(p) ==
    LET l == loc[p] IN
    /\ pc[p] = "delete_update_budget"
    /\ UNCHANGED <<users, teams, teamMembers, page, paging, expenses, nextExpenseId, spentWrites, loc, reports>>
    /\ budgets' = WriteSpent(budgets, Get(l.budget), l.read,
                             SpentAfterDelete(l.read, l.amount))
    /\ Finish(p, Returned("deleteExpense", None,
                          "Expense deleted successfully"))

\* create_expense.ts:9-16  select the user
CreateSelectUser(p) ==
    LET l == loc[p] IN
    /\ pc[p] = "create_select_user"
    /\ UNCHANGED <<users, teams, teamMembers, page, paging, expenses, nextExpenseId, budgets, spentWrites, loc, reports>>
    /\ IF l.user \notin DOMAIN users
       THEN Finish(p, Threw("createExpense", "User with id " \o ToString(l.user) \o " not found"))
       ELSE Continue(p, "create_insert_expense")

\* create_expense.ts:31-47  INSERT ... RETURNING
CreateInsertExpense(p) ==
    LET l == loc[p]
        row == NewExpenseRow(l.user, l.amount, "FOOD_DINING", "THIS_MONTH") IN
    /\ pc[p] = "create_insert_expense"
    /\ UNCHANGED <<users, teams, teamMembers, page, paging, budgets, spentWrites, reports>>
    /\ expenses' = Insert(expenses, nextExpenseId, row)
    /\ nextExpenseId' = nextExpenseId + 1
    /\ loc' = [loc EXCEPT ![p].expense_id = nextExpenseId, ![p].row = Some(row)]
    /\ Continue(p, "create_update_budgets")

\* create_expense.ts:50-71  one UPDATE statement computes current_spent + amount
\* in the database, from the rows as they are when it runs
CreateUpdateBudgets(p) ==
    LET l == loc[p] IN
    /\ pc[p] = "create_update_budgets"
    /\ UNCHANGED <<users, teams, teamMembers, page, paging, expenses, nextExpenseId, spentWrites, loc, reports>>
    /\ budgets' = BudgetsAfterCreate(budgets, l.user, Get(l.row).category, l.amount)
    /\ Finish(p, Returned("createExpense", Some(l.expense_id), "ok"))

InFlight == {"approve_select_approver", "approve_select_expense",
             "approve_update_expense", "approve_select_budget",
             "approve_update_budget",
             "delete_select_expense", "delete_delete_expense",
             "delete_select_budget", "delete_update_budget",
             "create_select_user", "create_insert_expense",
             "create_update_budgets"}

\* what a handler's catch block would leave of the expense row it holds if it
\* put back the row it had selected
StatementFailsRolledBack(p) ==
    LET l == loc[p] IN
    /\ pc[p] \in InFlight
    /\ Goto(p, "failed")
    /\ result' = Threw(l.op, "statement failed")
    /\ calls' = calls + 1
    /\ expenses' = IF pc[p] \in {"approve_select_budget", "approve_update_budget"}
                      /\ l.expense_id \in DOMAIN expenses
                   THEN [expenses EXCEPT ![l.expense_id].status = "PENDING",
                                         ![l.expense_id].approved_by = None,
                                         ![l.expense_id].approved_at = NULL]
                   ELSE IF pc[p] \in {"delete_select_budget", "delete_update_budget"}
                   THEN Insert(expenses, l.expense_id, Get(l.row))
                   ELSE IF pc[p] = "create_update_budgets"
                   THEN Remove(expenses, l.expense_id)
                   ELSE expenses
    /\ loc' = [loc EXCEPT ![p].at = pc[p]]
    /\ UNCHANGED <<users, teams, teamMembers, page, paging, nextExpenseId, budgets, spentWrites, reports>>

\* approve_expense.ts:83-86, create_expense.ts:72-75, delete_expense.ts:73-76
\* the statement the request is waiting for rejects: the catch block logs and
\* rethrows, and what the earlier statements wrote stays written
StatementFails(p) ==
    /\ pc[p] \in InFlight
    /\ Goto(p, "failed")
    /\ result' = Threw(loc[p].op, "statement failed")
    /\ calls' = calls + 1
    /\ loc' = [loc EXCEPT ![p].at = pc[p]]
    /\ UNCHANGED <<users, teams, teamMembers, page, paging, expenses, nextExpenseId, budgets, spentWrites, reports>>

NextConc ==
    \E p \in Procs :
       \/ StartRequest(p)
       \/ ApproveSelectApprover(p)
       \/ ApproveSelectExpense(p)
       \/ ApproveUpdateExpense(p)
       \/ ApproveSelectBudget(p)
       \/ ApproveUpdateBudget(p)
       \/ DeleteSelectExpense(p)
       \/ DeleteDeleteExpense(p)
       \/ DeleteSelectBudget(p)
       \/ DeleteUpdateBudget(p)
       \/ CreateSelectUser(p)
       \/ CreateInsertExpense(p)
       \/ CreateUpdateBudgets(p)
       \/ StatementFails(p)

SpecConc == InitConc /\ [][NextConc]_vars

-----------------------------------------------------------------------------
(* registerUser (handlers/add_team_member.ts:48-120), statement by statement: *)
(* registrations may overlap, and a finished request leaves its slot free    *)

Emails == {"user@x", "a@x", "b@x"}
Usernames == {"user", "a", "b"}

\* a lookup of the email that never finds a row
EmailTakenNever(us, email) == FALSE

\* add_team_member.ts:51-58  SELECT FROM users WHERE email = input.email; length > 0
EmailTaken(us, email) == \E u \in DOMAIN us : us[u].email = email

\* add_team_member.ts:60-67  SELECT FROM users WHERE username = input.username
UsernameTaken(us, username) == \E u \in DOMAIN us : us[u].username = username

\* the request is over and its slot takes the next request
Respond(p, outcome) ==
    /\ Goto(p, "idle")
    /\ result' = outcome
    /\ calls' = calls + 1
    /\ loc' = [loc EXCEPT ![p] = NULL]

Running == {p \in Procs : pc[p] # "idle"}

\* db/schema.ts:305-307  register: publicProcedure.input(registerUserInputSchema)
RegisterStart(p) ==
    /\ pc[p] = "idle"
    /\ calls + Cardinality(Running) < MaxCalls
    /\ \E email \in Emails, username \in Usernames, role \in Optional({"MANAGER"}) :
          loc' = [loc EXCEPT ![p] = [op |-> "registerUser", email |-> email,
                                     username |-> username, role |-> role]]
    /\ Goto(p, "register_select_email")
    /\ UNCHANGED <<users, teams, teamMembers, page, paging, expenses, nextExpenseId, budgets, result, spentWrites, calls, reports>>

\* add_team_member.ts:51-58
RegisterSelectEmail(p) ==
    /\ pc[p] = "register_select_email"
    /\ UNCHANGED <<users, teams, teamMembers, page, paging, expenses, nextExpenseId, budgets, spentWrites, reports>>
    /\ IF EmailTaken(users, loc[p].email)
       THEN Respond(p, Threw("registerUser", "User with this email already exists"))
       ELSE Continue(p, "register_select_username") /\ UNCHANGED loc

\* add_team_member.ts:60-67
RegisterSelectUsername(p) ==
    /\ pc[p] = "register_select_username"
    /\ UNCHANGED <<users, teams, teamMembers, page, paging, expenses, nextExpenseId, budgets, spentWrites, reports>>
    /\ IF UsernameTaken(users, loc[p].username)
       THEN Respond(p, Threw("registerUser", "Username already taken"))
       ELSE Continue(p, "register_insert") /\ UNCHANGED loc

\* add_team_member.ts:74-87  INSERT INTO users; the columns email and username are
\* declared unique (db/schema.ts:40-41), so the statement fails on a duplicate
RegisterInsert(p) ==
    LET l == loc[p] IN
    /\ pc[p] = "register_insert"
    /\ UNCHANGED <<teams, teamMembers, page, paging, expenses, nextExpenseId, budgets, spentWrites, reports>>
    /\ IF EmailTaken(users, l.email) \/ UsernameTaken(users, l.username)
       THEN /\ Respond(p, Threw("registerUser", "duplicate key value violates unique constraint"))
            /\ UNCHANGED users
       ELSE /\ users' = Insert(users, NextId(users),
                               [email |-> l.email, username |-> l.username,
                                role |-> IF l.role # None THEN Get(l.role) ELSE "USER",
                                is_active |-> TRUE])
            /\ Respond(p, Returned("registerUser", Some(NextId(users)), "ok"))

NextRegister ==
    \E p \in Procs :
       \/ RegisterStart(p)
       \/ RegisterSelectEmail(p)
       \/ RegisterSelectUsername(p)
       \/ RegisterInsert(p)

SpecRegister == Init /\ [][NextRegister]_vars

----------------------------------------------------------------------------
(* The status of an expense and the checks of approveExpense *)

\* the step is a call of the handler op
Called(op) == calls' # calls /\ result'.op = op

\* C4: an expense is created PENDING; only a successful approveExpense changes a
\* status, and only from PENDING to APPROVED or REJECTED; a decided expense keeps
\* its status: approveExpense throws 'Expense is not in pending status' and
\* changes nothing
C4_StatusMachine ==
    [][/\ \A e \in DOMAIN expenses' \ DOMAIN expenses : expenses'[e].status = "PENDING"
       /\ \A e \in DOMAIN expenses \cap DOMAIN expenses' :
             expenses'[e].status # expenses[e].status =>
                /\ expenses[e].status = "PENDING"
                /\ expenses'[e].status \in {"APPROVED", "REJECTED"}
                /\ result' = Returned("approveExpense", Some(e), "ok")
       /\ Called("approveExpense") =>
          \A e \in DOMAIN expenses, u \in {2, 3}, s \in Decisions :
             (expenses[e].status # "PENDING" /\ ApproveExpense(e, u, s)) =>
                /\ result' = Threw("approveExpense", "Expense is not in pending status")
                /\ UNCHANGED <<expenses, budgets>>
      ]_vars

\* a decided expense was offered for a second decision, which was refused
C4_SecondDecisionRefused ==
    /\ result = Threw("approveExpense", "Expense is not in pending status")
    /\ \E e \in DOMAIN expenses : expenses[e].status \in {"APPROVED", "REJECTED"}

\* C5: approveExpense returns only for an existing ADMIN or MANAGER approver and an
\* existing PENDING expense; otherwise it throws the message of the first check
\* that fails and leaves the expense rows and the budget rows as they were
C5_ApproveValidation ==
    [][Called("approveExpense") =>
       \A e \in ExpenseIdInputs, u \in UserIdInputs, s \in Decisions :
          ApproveExpense(e, u, s) =>
             LET approverExists == u \in DOMAIN users
                 approverOk == approverExists /\ users[u].role \in {"ADMIN", "MANAGER"}
                 expenseExists == e \in DOMAIN expenses
                 expenseOk == expenseExists /\ expenses[e].status = "PENDING"
             IN IF approverOk /\ expenseOk
                THEN result'.kind = "returned"
                ELSE /\ result'.op = "approveExpense"
                     /\ result'.kind = "threw"
                     /\ result'.message =
                           IF ~approverExists THEN "Approver not found"
                           ELSE IF ~approverOk
                               THEN "Insufficient permissions to approve expenses"
                           ELSE IF ~expenseExists THEN "Expense not found"
                           ELSE "Expense is not in pending status"
                     /\ UNCHANGED <<expenses, budgets>>
      ]_vars

\* a USER-role approver was refused while a PENDING expense and a budget exist
C5_UserRoleRefused ==
    /\ result = Threw("approveExpense", "Insufficient permissions to approve expenses")
    /\ \E e \in DOMAIN expenses : expenses[e].status = "PENDING"
    /\ DOMAIN budgets # {}

----------------------------------------------------------------------------
(* The budget effect of each expense handler *)

\* the budgets of user u for category c that are active, read from the rows
ActiveOf(u, c) ==
    {b \in DOMAIN budgets :
        budgets[b].user_id = u /\ budgets[b].category = c /\ budgets[b].is_active}

\* C6: a successful approveExpense with status APPROVED adds the expense's amount
\* to current_spent of the owner's active budget of the expense's category and
\* changes no other budget row; with status REJECTED, or without such a budget,
\* it returns and no budget row changes
C6_ApproveBudgetEffect ==
    [][(Called("approveExpense") /\ result'.kind = "returned") =>
       \A e \in ExpenseIdInputs, u \in UserIdInputs, s \in Decisions :
          ApproveExpense(e, u, s) =>
             LET row == expenses[e]
                 act == ActiveOf(row.user_id, row.category)
             IN IF s = "APPROVED" /\ act # {}
                THEN \E b \in act :
                        budgets' = [budgets EXCEPT ![b].current_spent = @ + row.amount]
                ELSE budgets' = budgets
      ]_vars

\* an approval has just added the amount to the owner's budget while a second
\* budget exists
C6_ApprovedIntoBudget ==
    /\ result.op = "approveExpense" /\ result.kind = "returned"
    /\ Cardinality(DOMAIN budgets) = 2
    /\ LET row == expenses[Get(result.id)] IN
          /\ row.status = "APPROVED"
          /\ \E b \in ActiveOf(row.user_id, row.category) :
                spentWrites = {<<b, budgets[b].current_spent - row.amount,
                                 budgets[b].current_spent>>}

\* C7: createExpense inserts exactly one expense, with status PENDING, and adds
\* its amount to current_spent of every active budget of the same user and
\* category (so successive calls accumulate); every other budget row is unchanged,
\* and without such a budget the expense is still inserted
C7_CreateBudgetEffect ==
    [][(Called("createExpense") /\ result'.kind = "returned") =>
       \A u \in UserIdInputs, a \in Amounts, c \in Categories, d \in ExpenseDates :
          CreateExpense(u, a, c, d) =>
             LET id == Get(result'.id) IN
             /\ id \notin DOMAIN expenses
             /\ DOMAIN expenses' = DOMAIN expenses \cup {id}
             /\ \A k \in DOMAIN expenses : expenses'[k] = expenses[k]
             /\ expenses'[id].status = "PENDING"
             /\ expenses'[id].user_id = u
             /\ expenses'[id].amount = a
             /\ expenses'[id].category = c
             /\ DOMAIN budgets' = DOMAIN budgets
             /\ \A b \in DOMAIN budgets :
                   budgets'[b] = IF b \in ActiveOf(u, c)
                                 THEN [budgets[b] EXCEPT !.current_spent = @ + a]
                                 ELSE budgets[b]
      ]_vars

\* two expenses of 25.00 and 35.50 were created one after the other under a
\* budget that started at 0: it now holds 60.50
C7_TwoCreatesAccumulate ==
    /\ result.op = "createExpense" /\ result.kind = "returned"
    /\ calls = 3
    /\ DOMAIN expenses = {1, 2}
    /\ expenses[1].amount + expenses[2].amount = 6050
    /\ \E b \in DOMAIN budgets :
          /\ spentWrites = {<<b, expenses[1].amount, 6050>>}
          /\ budgets[b].current_spent = 6050

C9_UpdateBudgetEffect ==
    [][(Called("updateExpense") /\ result'.kind = "returned") =>
       \A e \in {Get(result'.id)},
          a \in {None, Some(expenses'[Get(result'.id)].amount)},
          c \in {None, Some(expenses'[Get(result'.id)].category)},
          d \in {None, Some(expenses'[Get(result'.id)].expense_date)} :
          UpdateExpense(e, a, c, d) =>
             LET old == expenses[e]
                 newAmount == IF a = None THEN old.amount ELSE Get(a)
                 OwnerBudget(b, cat) ==
                     budgets[b].user_id = old.user_id /\ budgets[b].category = cat
                 Delta(b) ==
                     IF c # None /\ Get(c) # old.category
                     THEN IF OwnerBudget(b, old.category) THEN 0 - old.amount
                          ELSE IF OwnerBudget(b, Get(c)) THEN newAmount
                          ELSE 0
                     ELSE IF a # None /\ OwnerBudget(b, old.category)
                          THEN newAmount - old.amount
                          ELSE 0
             IN /\ DOMAIN budgets' = DOMAIN budgets
                /\ \A b \in DOMAIN budgets :
                      budgets'[b] = [budgets[b] EXCEPT !.current_spent = @ + Delta(b)]
      ]_vars

\* an update has just changed category and amount: one budget lost the old
\* amount, the other gained the new, different amount
C9_CategoryAndAmountMoved ==
    /\ result.op = "updateExpense" /\ result.kind = "returned"
    /\ \E w1, w2 \in spentWrites :
          /\ w1[1] # w2[1]
          /\ w1[3] < w1[2]
          /\ w2[3] > w2[2]
          /\ w1[2] - w1[3] # w2[3] - w2[2]
          /\ w2[3] - w2[2] = expenses[Get(result.id)].amount

\* C10: deleteExpense removes the expense exactly when it exists and belongs to
\* userId; otherwise it returns (does not throw) the refusal message and leaves
\* the expense rows and the budget rows as they were
C10_DeleteOwnership ==
    [][Called("deleteExpense") =>
       \A e \in ExpenseIdInputs, u \in UserIdInputs :
          DeleteExpense(e, u) =>
             IF e \in DOMAIN expenses /\ expenses[e].user_id = u
             THEN /\ result' = Returned("deleteExpense", None, "Expense deleted successfully")
                  /\ DOMAIN expenses' = DOMAIN expenses \ {e}
                  /\ \A k \in DOMAIN expenses' : expenses'[k] = expenses[k]
             ELSE /\ result' = Returned("deleteExpense", None,
                             "Expense not found or you do not have permission to delete it")
                  /\ UNCHANGED <<expenses, budgets>>
      ]_vars

\* a deletion was refused while every stored expense belongs to one user and a
\* budget exists
C10_DeleteRefused ==
    /\ result = Returned("deleteExpense", None,
                         "Expense not found or you do not have permission to delete it")
    /\ DOMAIN expenses = 1..MaxExpenses
    /\ DOMAIN budgets # {}

\* C1: the stored current_spent of every budget equals the sum getUserBudgets
\* recomputes: the amounts of the owner's APPROVED expenses of the budget's
\* category dated in the current month
C1_StoredSpentIsRecomputed ==
    \A b \in DOMAIN budgets :
       budgets[b].current_spent =
          RecomputedSpent(expenses, budgets[b].user_id, budgets[b].category)

\* C2: the budget updates of approveExpense and deleteExpense are unprotected
\* read-modify-write sequences: when two finished requests read the same
\* current_spent of the same budget row, the row ends with the value one of
\* them computed from that read, so the other update is lost
Computed(l) ==
    IF l.op = "approveExpense"
    THEN l.read + l.amount
    ELSE Max(0, l.read - l.amount)

ReadAndWrote(p) ==
    /\ pc[p] = "done"
    /\ loc[p].op \in {"approveExpense", "deleteExpense"}
    /\ loc[p].budget # None

C2_LostUpdate ==
    \A p, q \in Procs :
       (/\ p # q
        /\ ReadAndWrote(p)
        /\ ReadAndWrote(q)
        /\ loc[p].budget = loc[q].budget
        /\ loc[p].read = loc[q].read)
       => budgets[Get(loc[p].budget)].current_spent
             \in {Computed(loc[p]), Computed(loc[q])}

\* two approvals of user 1's two FOOD_DINING expenses both read 0.00 and both
\* finished: both expenses are APPROVED, the budget holds 35.50 and not 60.50
C2_OneApprovalLost ==
    /\ ReadAndWrote("r1") /\ ReadAndWrote("r2")
    /\ loc["r1"].op = "approveExpense" /\ loc["r1"].expense_id = 1
    /\ loc["r2"].op = "approveExpense" /\ loc["r2"].expense_id = 2
    /\ loc["r1"].read = 0 /\ loc["r2"].read = 0
    /\ expenses[1].status = "APPROVED" /\ expenses[2].status = "APPROVED"
    /\ budgets[1].current_spent = 3550

\* C3: the writes of a handler are separate statements outside any
\* transaction: a request that failed after its first write has left that
\* write in the store (the decided status, the inserted row, the deletion),
\* while its budget update never ran
FailedAfterFirstWrite(p, op, statements) ==
    /\ pc[p] = "failed"
    /\ loc[p].op = op
    /\ loc[p].at \in statements

C3_NoRollback ==
    \A p \in Procs :
       /\ FailedAfterFirstWrite(p, "approveExpense",
                                {"approve_select_budget", "approve_update_budget"})
             => (loc[p].expense_id \in DOMAIN expenses
                   => expenses[loc[p].expense_id].status \in Decisions)
       /\ FailedAfterFirstWrite(p, "createExpense", {"create_update_budgets"})
             => loc[p].expense_id \in DOMAIN expenses
       /\ FailedAfterFirstWrite(p, "deleteExpense",
                                {"delete_select_budget", "delete_update_budget"})
             => loc[p].expense_id \notin DOMAIN expenses
       /\ (pc[p] = "failed" /\ \A q \in Procs \ {p} : pc[q] = "idle")
             => budgets[1].current_spent =
                   SumAmounts(expenses, {e \in DOMAIN expenses :
                                            expenses[e].status = "APPROVED"})
                   - (IF FailedAfterFirstWrite(p, "approveExpense",
                            {"approve_select_budget", "approve_update_budget"})
                      THEN loc[p].amount ELSE 0)
                   + (IF FailedAfterFirstWrite(p, "deleteExpense",
                            {"delete_select_budget", "delete_update_budget"})
                      THEN loc[p].amount ELSE 0)

\* the approval of expense 1 failed after the status write and the deletion of
\* the approved expense 2 failed after the row was removed: expense 1 is
\* APPROVED, expense 2 is gone, and the budget still holds the 35.50 of expense 2
C3_HalfDoneStatePersists ==
    /\ FailedAfterFirstWrite("r1", "approveExpense",
                             {"approve_select_budget", "approve_update_budget"})
    /\ loc["r1"].expense_id = 1 /\ loc["r1"].status = "APPROVED"
    /\ FailedAfterFirstWrite("r2", "deleteExpense",
                             {"delete_select_budget", "delete_update_budget"})
    /\ loc["r2"].expense_id = 2
    /\ expenses[1].status = "APPROVED"
    /\ 2 \notin DOMAIN expenses
    /\ budgets[1].current_spent = 3550

----------------------------------------------------------------------------
(* Budgets *)

\* C11: under sequential execution there is at most one budget row per user and
\* category: createBudget throws 'Budget already exists for this category' and
\* inserts nothing when a budget of the user for the category exists, active or
\* not; for an existing user without such a budget it inserts exactly one row,
\* whatever budgets the user has for other categories and other users have for
\* this one
C11_OneBudgetPerCategory ==
    [][/\ \A b1, b2 \in DOMAIN budgets' :
             (/\ budgets'[b1].user_id = budgets'[b2].user_id
              /\ budgets'[b1].category = budgets'[b2].category) => b1 = b2
       /\ Called("createBudget") =>
             \A u \in DOMAIN users, c \in Categories :
                CreateBudget(u, c) =>
                   IF \E b \in DOMAIN budgets :
                         budgets[b].user_id = u /\ budgets[b].category = c
                   THEN /\ result' = Threw("createBudget",
                                           "Budget already exists for this category")
                        /\ budgets' = budgets
                   ELSE /\ result'.kind = "returned"
                        /\ Cardinality(DOMAIN budgets') = Cardinality(DOMAIN budgets) + 1
                        /\ \A b \in DOMAIN budgets : budgets'[b] = budgets[b]
                        /\ \A b \in DOMAIN budgets' \ DOMAIN budgets :
                              budgets'[b].user_id = u /\ budgets'[b].category = c
      ]_vars

\* a second budget for a user and category was refused although the first one
\* had been switched off
C11_DuplicateRefused ==
    /\ result = Threw("createBudget", "Budget already exists for this category")
    /\ Cardinality(DOMAIN budgets) = 1
    /\ \A b \in DOMAIN budgets : ~budgets[b].is_active

\* C12: createBudget initialises current_spent to the sum of the amounts of the
\* user's existing expenses of the category whose expense_date lies in the
\* current calendar month (0 when there are none); expenses of other
\* categories, other months and other users are not counted
C12_InitialSpentIsMonthSum ==
    [][(Called("createBudget") /\ result'.kind = "returned") =>
          LET row == budgets'[Get(result'.id)] IN
          row.current_spent =
             SumAmounts(expenses,
                 {e \in DOMAIN expenses :
                     /\ expenses[e].user_id = row.user_id
                     /\ expenses[e].category = row.category
                     /\ expenses[e].expense_date \in {"THIS_MONTH", "MONTH_END"}})
      ]_vars

----------------------------------------------------------------------------
(* The fields of an expense row *)

\* C13: the approval fields agree with the status: a PENDING expense has
\* approved_by and approved_at null; an APPROVED expense has approved_by set and
\* approved_at set; a REJECTED expense has approved_by set and approved_at
\* null; and the approved_by a decision stores is the approver of that call
C13_ApprovalFieldsAgree ==
    [][/\ \A e \in DOMAIN expenses' :
             LET r == expenses'[e] IN
             /\ r.status = "PENDING" => (r.approved_by = None /\ r.approved_at = NULL)
             /\ r.status = "APPROVED" => (r.approved_by # None /\ r.approved_at = "SET")
             /\ r.status = "REJECTED" => (r.approved_by # None /\ r.approved_at = NULL)
       /\ (Called("approveExpense") /\ result'.kind = "returned") =>
             \A u \in UserIdInputs, s \in Decisions :
                ApproveExpense(Get(result'.id), u, s) =>
                   /\ expenses'[Get(result'.id)].approved_by = Some(u)
                   /\ expenses'[Get(result'.id)].status = s
      ]_vars

\* one expense was approved and another rejected, by different approvers
C13_ApprovedAndRejected ==
    /\ DOMAIN expenses = {1, 2}
    /\ expenses[1].status = "APPROVED" /\ expenses[1].approved_at = "SET"
    /\ expenses[2].status = "REJECTED" /\ expenses[2].approved_at = NULL
    /\ expenses[1].approved_by = Some(2)
    /\ expenses[2].approved_by = Some(3)

-----------------------------------------------------------------------------
(* Teams *)

\* C14: createExpense called with a user_id that is not stored, or with a team_id that
\* is provided (not absent) and is not stored, throws 'User with id N not found' or
\* 'Team with id N not found' and writes nothing: the expense rows and the budgets
\* are what they were before the call.
C14_InvalidCreateWritesNothing ==
    [][Called("createExpense") =>
          \A u \in {1, AbsentUser}, t \in TeamIdInputs, a \in Amounts :
             (/\ CreateExpenseInTeam(u, t, a, "FOOD_DINING", "THIS_MONTH")
              /\ (u \notin DOMAIN users \/ (t # None /\ Get(t) \notin DOMAIN teams)))
             => /\ result'.kind = "threw"
                /\ result'.message =
                      IF u \notin DOMAIN users
                      THEN "User with id " \o ToString(u) \o " not found"
                      ELSE "Team with id " \o ToString(Get(t)) \o " not found"
                /\ expenses' = expenses
                /\ budgets' = budgets
      ]_vars

\* C17: with one call at a time, no two rows of team_members hold the same
\* (team_id, user_id) pair.  addTeamMember throws 'Team not found' for a team that is
\* not stored, 'User not found' for a user that is not stored, 'User is already a
\* member of this team' for a stored pair, each time leaving team_members as it was;
\* in every other case it adds exactly one row, the pair it was given, even when the
\* user is already a member of another team.
C17_MembershipPairsUnique ==
    [][/\ \A m, n \in DOMAIN teamMembers' :
            (/\ teamMembers'[m].team_id = teamMembers'[n].team_id
             /\ teamMembers'[m].user_id = teamMembers'[n].user_id) => m = n
       /\ Called("addTeamMember") =>
            \A t \in StoredOrNextTeam, u \in MemberIdInputs :
               AddTeamMember(t, u) =>
                  LET stored == \E m \in DOMAIN teamMembers :
                                   teamMembers[m] = [team_id |-> t, user_id |-> u]
                      refusal == IF t \notin DOMAIN teams THEN "Team not found"
                                 ELSE IF u \notin DOMAIN users THEN "User not found"
                                 ELSE IF stored THEN "User is already a member of this team"
                                 ELSE "ok"
                  IN IF refusal # "ok"
                     THEN /\ result' = Threw("addTeamMember", refusal)
                          /\ teamMembers' = teamMembers
                     ELSE /\ result'.kind = "returned"
                          /\ DOMAIN teamMembers \subseteq DOMAIN teamMembers'
                          /\ Cardinality(DOMAIN teamMembers') =
                                Cardinality(DOMAIN teamMembers) + 1
                          /\ \A m \in DOMAIN teamMembers : teamMembers'[m] = teamMembers[m]
                          /\ \A m \in DOMAIN teamMembers' \ DOMAIN teamMembers :
                                teamMembers'[m] = [team_id |-> t, user_id |-> u]
      ]_vars

\* user 1 has just been added to a second team
C17_SameUserInTwoTeams ==
    /\ result.op = "addTeamMember" /\ result.kind = "returned"
    /\ \E m, n \in DOMAIN teamMembers :
          /\ teamMembers[m].user_id = 1 /\ teamMembers[n].user_id = 1
          /\ teamMembers[m].team_id # teamMembers[n].team_id

\* C18: createTeam inserts a team only for a manager_id that names a stored, active
\* user of role MANAGER or ADMIN.  Otherwise it throws 'Manager not found', 'User does
\* not have manager privileges' or 'Manager account is not active' and leaves teams
\* and team_members as they were.  On success it adds one team managed by manager_id
\* and one team_members row, which joins the manager to the new team; hence every
\* stored team has its manager among its members.
C18_TeamHasItsManager ==
    [][/\ \A t \in DOMAIN teams' :
            \E m \in DOMAIN teamMembers' :
               teamMembers'[m] = [team_id |-> t, user_id |-> teams'[t].manager_id]
       /\ Called("createTeam") =>
            \A manager_id \in ManagerIdInputs :
               CreateTeam(manager_id) =>
                  LET refusal ==
                          IF manager_id \notin DOMAIN users THEN "Manager not found"
                          ELSE IF users[manager_id].role \notin {"MANAGER", "ADMIN"}
                          THEN "User does not have manager privileges"
                          ELSE IF ~users[manager_id].is_active
                          THEN "Manager account is not active"
                          ELSE "ok"
                      newTeams == DOMAIN teams' \ DOMAIN teams
                      newMembers == DOMAIN teamMembers' \ DOMAIN teamMembers
                  IN /\ \A t \in DOMAIN teams : teams'[t] = teams[t]
                     /\ \A m \in DOMAIN teamMembers : teamMembers'[m] = teamMembers[m]
                     /\ IF refusal # "ok"
                        THEN /\ result' = Threw("createTeam", refusal)
                             /\ newTeams = {} /\ newMembers = {}
                        ELSE /\ result'.kind = "returned"
                             /\ newTeams = {Get(result'.id)}
                             /\ teams'[Get(result'.id)].manager_id = manager_id
                             /\ Cardinality(newMembers) = 1
                             /\ \A m \in newMembers :
                                   teamMembers'[m] = [team_id |-> Get(result'.id),
                                                      user_id |-> manager_id]
      ]_vars

\* a second team has just been created for the administrator, who is its one member,
\* while the first team has gained a member of its own
C18_SecondTeamCreated ==
    /\ result = Returned("createTeam", Some(2), "ok")
    /\ teams[2].manager_id = 3
    /\ {teamMembers[m].user_id : m \in {n \in DOMAIN teamMembers :
                                          teamMembers[n].team_id = 2}} = {3}
    /\ Cardinality({n \in DOMAIN teamMembers : teamMembers[n].team_id = 1}) = 2

\* C19: getTeamExpenses(teamId, managerId) throws 'Team not found' when no team has
\* the id and 'Access denied: You are not the manager of this team' when managerId
\* is not the manager_id of the team, returning nothing; otherwise it returns, once
\* each, exactly the expenses whose team_id is teamId, whatever their status, and
\* none of another team or of no team.
C19_TeamExpensesForManagerOnly ==
    [][Called("getTeamExpenses") =>
          \A t \in StoredOrNextTeam, m \in DOMAIN SeedUsers :
             GetTeamExpenses(t, m) =>
                IF t \notin DOMAIN teams
                THEN result' = Threw("getTeamExpenses", "Team not found") /\ page' = <<>>
                ELSE IF teams[t].manager_id # m
                THEN /\ result' = Threw("getTeamExpenses",
                                        "Access denied: You are not the manager of this team")
                     /\ page' = <<>>
                ELSE /\ result'.kind = "returned"
                     /\ {page'[i] : i \in DOMAIN page'} =
                           {e \in DOMAIN expenses : expenses[e].team_id = Some(t)}
                     /\ \A i, j \in DOMAIN page' : page'[i] = page'[j] => i = j
      ]_vars

\* the manager of team 1 has just read its one expense, an approved one, while team 2
\* has an expense of its own
C19_OnlyOwnTeamReturned ==
    /\ result = Returned("getTeamExpenses", None, "ok")
    /\ page = <<1>>
    /\ expenses[1].team_id = Some(1) /\ expenses[1].status = "APPROVED"
    /\ 2 \in DOMAIN expenses /\ expenses[2].team_id = Some(2)

-----------------------------------------------------------------------------
(* Paged reading of a user's expenses *)

-----------------------------------------------------------------------------
(* updateExpense: what it writes and what it leaves alone *)

\* C15: updateExpense writes exactly the supplied fields of the row (amount, category
\* and expense_date stand for the nine optional fields of the input, each guarded by
\* the same test): a field that is not supplied keeps its stored value, user_id,
\* team_id, status, approved_by and approved_at keep theirs, no row is added or
\* removed and no other row changes.  For an id that is not stored it throws
\* 'Expense with id N not found' and changes no expense and no budget.
C15_UpdateFrame ==
    [][Called("updateExpense") =>
          /\ result'.kind = "returned" =>
                \A e \in {Get(result'.id)},
                   a \in {None, Some(expenses'[Get(result'.id)].amount)},
                   c \in {None, Some(expenses'[Get(result'.id)].category)},
                   d \in {None, Some(expenses'[Get(result'.id)].expense_date)} :
                   UpdateExpense(e, a, c, d) =>
                      LET old == expenses[e]
                          new == expenses'[e] IN
                      /\ DOMAIN expenses' = DOMAIN expenses
                      /\ \A x \in DOMAIN expenses \ {e} : expenses'[x] = expenses[x]
                      /\ new.amount = IF a = None THEN old.amount ELSE Get(a)
                      /\ new.category = IF c = None THEN old.category ELSE Get(c)
                      /\ new.expense_date = IF d = None THEN old.expense_date ELSE Get(d)
                      /\ new.user_id = old.user_id
                      /\ new.team_id = old.team_id
                      /\ new.status = old.status
                      /\ new.approved_by = old.approved_by
                      /\ new.approved_at = old.approved_at
          /\ \A e \in ExpenseIdInputs \ DOMAIN expenses,
                a \in Optional(Amounts), c \in Optional(Categories),
                d \in Optional(ExpenseDates) :
                UpdateExpense(e, a, c, d) =>
                   /\ result'.kind = "threw"
                   /\ result'.message = "Expense with id " \o ToString(e) \o " not found"
                   /\ expenses' = expenses
                   /\ budgets' = budgets
      ]_vars

\* an approved expense of a team has just been edited: its category and date are
\* new, and it is still the approved expense of that team
C15_ApprovedTeamExpenseEdited ==
    /\ result.op = "updateExpense" /\ result.kind = "returned"
    /\ LET r == expenses[Get(result.id)] IN
       /\ r.category = "TRAVEL" /\ r.expense_date = "PREV_MONTH"
       /\ r.team_id = Some(1) /\ r.status = "APPROVED"
       /\ r.approved_by = Some(2) /\ r.approved_at = "SET"

-----------------------------------------------------------------------------
(* Users *)

\* C16: no two user rows share an email and no two share a username, whether or not
\* registrations overlap; a registration whose email is already stored when it is
\* looked up ends with 'User with this email already exists', one whose username is
\* already stored ends with 'Username already taken', and neither inserts a row.
C16_UniqueEmailAndUsername ==
    [][/\ \A i, j \in DOMAIN users' :
            i # j => /\ users'[i].email # users'[j].email
                     /\ users'[i].username # users'[j].username
       /\ \A p \in Procs :
            /\ (RegisterSelectEmail(p) /\ \E u \in DOMAIN users : users[u].email = loc[p].email)
                  => /\ result' = Threw("registerUser", "User with this email already exists")
                     /\ calls' = calls + 1 /\ pc'[p] = "idle"
                     /\ users' = users
            /\ (RegisterSelectUsername(p)
                   /\ \E u \in DOMAIN users : users[u].username = loc[p].username)
                  => /\ result' = Threw("registerUser", "Username already taken")
                     /\ calls' = calls + 1 /\ pc'[p] = "idle"
                     /\ users' = users
      ]_vars

\* after two registrations went through, a third with a stored email is refused
C16_DuplicateEmailRefused ==
    /\ result = Threw("registerUser", "User with this email already exists")
    /\ Cardinality(DOMAIN users) = Cardinality(DOMAIN SeedUsers) + 2

-----------------------------------------------------------------------------
(* An expense that comes and goes *)

\* C21: an expense that is created and later deleted leaves no trace in the budget.
\* In runs made only of budgets set up over an empty expense table (current_spent 0)
\* and of single expenses created, decided at most once (APPROVED or REJECTED) and
\* deleted, each under an active budget of its category: whenever no expense is
\* stored, every budget's current_spent is back at 0, its value before the expense
\* was created.
C21_CreateThenDeleteLeavesNoTrace ==
    NoExpenseStored => \A b \in DOMAIN budgets : budgets[b].current_spent = 0

-----------------------------------------------------------------------------
(* Who decides an expense *)

\* C22: a manager decides only expenses that are routed to them.  Whenever
\* approveExpense returns for an approver of role MANAGER, the decided expense has a
\* team_id, the manager_id of that team is the approver, and so the expense was among
\* those getPendingApprovals lists for the approver in the state before the call.
C22_ManagerDecidesOwnTeamOnly ==
    [][(Called("approveExpense") /\ result'.kind = "returned") =>
          LET e == Get(result'.id)
              m == Get(expenses'[e].approved_by) IN
          users[m].role = "MANAGER" =>
             /\ expenses[e].team_id # None
             /\ Get(expenses[e].team_id) \in DOMAIN teams
             /\ teams[Get(expenses[e].team_id)].manager_id = m
             /\ e \in PendingApprovalIds(expenses, teams, m)
      ]_vars

-----------------------------------------------------------------------------
(* Reports *)

\* C23: the filters of a report that generateReport stores hold, as total_expenses,
\* the number of distinct expenses dated within [date_from, date_to] (and of a listed
\* category when categories are given) that belong to the user or, when
\* include_team_expenses is true, are attributed to a team of which the user is a
\* member, each counted once; as total_amount, the sum of their amounts; and a
\* category_breakdown whose counts and amounts add up to the two totals.
C23_ReportCountsEachExpenseOnce ==
    [][(Called("generateReport") /\ result'.kind = "returned") =>
          LET in == loc'["r1"]
              filters == reports'[Get(result'.id)].filters
              MemberOf(t) == \E m \in DOMAIN teamMembers :
                                teamMembers[m].team_id = t /\ teamMembers[m].user_id = in.user_id
              counted == {e \in DOMAIN expenses :
                            /\ DateRank(expenses[e].expense_date) >= DateRank(in.date_from)
                            /\ DateRank(expenses[e].expense_date) <= DateRank(in.date_to)
                            /\ in.categories # {} => expenses[e].category \in in.categories
                            /\ \/ expenses[e].user_id = in.user_id
                               \/ /\ in.include_team_expenses
                                  /\ expenses[e].team_id # None
                                  /\ MemberOf(Get(expenses[e].team_id))}
              breakdown == filters.category_breakdown
              Count(c) == IF c \in DOMAIN breakdown THEN breakdown[c].count ELSE 0
              Amount(c) == IF c \in DOMAIN breakdown THEN breakdown[c].amount ELSE 0
          IN /\ filters.total_expenses = Cardinality(counted)
             /\ filters.total_amount = SumAmounts(expenses, counted)
             /\ DOMAIN breakdown \subseteq Categories
             /\ Count("FOOD_DINING") + Count("TRAVEL") = filters.total_expenses
             /\ Amount("FOOD_DINING") + Amount("TRAVEL") = filters.total_amount
      ]_vars

====
